---- MODULE Spec2Model ----
(***************************************************************************)
(* Model of the tiered memory subsystem (core/memory_system.py) and of the *)
(* bounded-concurrency task engine (core/task_engine.py).                  *)
(*                                                                         *)
(* The specifications share the variables:                                 *)
(*   SpecStore     sequential calls on one ShortTermMemory;                *)
(*   SpecMem       sequential calls on MemoryManager;                      *)
(*   SpecShutdown  the same, with shutdown;                                *)
(*   SpecTask      one TaskEngine, its queue, and the coroutines of        *)
(*                 run_all interleaved by the event loop.                  *)
(* The clock moves only between calls (Tick).                              *)
(*                                                                         *)
(* Text is a sequence of one-character strings, so that lower(), the       *)
(* substring tests and json.dumps are computed rather than assumed.        *)
(* The alphabet holds no LIKE wildcard (% or _) and no JSON escape.        *)
(***************************************************************************)
EXTENDS Integers, Sequences, FiniteSets, TLC

VARIABLES
    now,          \* time.time(), read by the calls; moves only in Tick
    threshold,    \* MemoryManager._consolidation_threshold
    store,        \* ShortTermMemory._store: items in dict (insertion) order
    long,         \* rows of table memories, in rowid order
    closed,       \* LongTermMemory._conn has been closed
    nextId,       \* the next fresh uuid4
    lastOp,       \* the last call and its arguments
    lastRet,      \* what it returned: a list of items (<<>> is None / [])
    lastBool,     \* what it returned, for the calls that return a bool
    lastFault,    \* it raised instead of returning
    searchLimit,  \* <<LIMIT>> of the long.search call it made, or NotCalled
    pre,          \* store and long as they were when the call began
    drained,      \* created_at of the items popped since the last add
    queue,        \* TaskEngine.queue
    concurrency,  \* TaskEngine._concurrency
    units,        \* the coroutines run_all built: one (task, mode) each
    upc,          \* where each coroutine is
    sem,          \* value of the asyncio.Semaphore of this run_all
    ures,         \* result of each finished coroutine
    doneOrder,    \* indexes of the coroutines in the order they finished
    rpc,          \* where run_all is: idle, running, returned, raised
    results,      \* what run_all returned
    tpc,          \* where each thread is in the call it makes
    tcall,        \* the call of each thread: its arguments and locals
    shortLock,    \* holder of ShortTermMemory._lock
    longLock,     \* holder of LongTermMemory._lock
    mgrLock,      \* holder of MemoryManager._lock
    keyError,     \* a "del self._store[k]" found no key k
    main,         \* process_user_input: its position and its locals
    passed        \* the integers the constructors were given, where recorded

memVars  == <<now, threshold, store, long, closed, nextId, lastOp, lastRet,
              lastBool, lastFault, searchLimit, pre, drained>>
taskVars == <<queue, concurrency, units, upc, sem, ures, doneOrder, rpc, results>>
thrVars  == <<tpc, tcall, shortLock, longLock, mgrLock, keyError>>
callVars == <<lastOp, lastRet, lastBool, lastFault, searchLimit, pre, drained>>
vars     == <<memVars, taskVars, thrVars, main, passed>>

-----------------------------------------------------------------------------
(* Bounds of the model *)

MaxTime == 2
MaxIds == 2
MaxLimit == 2
MaxThreshold == 1

MaxQueue == 2
MaxTasks == 2
MaxConcurrency == 2

(* Optional[float] = None for expires_at and for ttl *)
NoExpiry == -1
(* searchLimit when the call made no long.search; else <<its LIMIT>> *)
NotCalled == <<>>

\* what a caller stores: content "A" with no metadata, content "b" with {"k": "b"}
Payloads == { [content |-> <<"A">>, metadata |-> <<>>],
              [content |-> <<"b">>, metadata |-> << <<<<"k">>, <<"b">>>> >>] }
\* "a" is in the first content once lowered; "K" is in the second's JSON text only
Keywords == { <<"a">>, <<"K">> }
Ttls     == { NoExpiry, 1 }
Limits   == 0..MaxLimit
ConfigThresholds == (0 - MaxThreshold)..MaxThreshold
ConfigConcurrency == (0 - MaxConcurrency)..MaxConcurrency

\* the (task, mode) pairs a caller submits
Entries == { [task |-> "t1", mode |-> "browser"], [task |-> "t2", mode |-> "code"] }
\* how agent.run() and history.final_result() end for one unit
Outcomes == { "final", "empty", "str", "raise" }

-----------------------------------------------------------------------------
(* Text *)

LowerChar(c) == IF c = "A" THEN "a" ELSE IF c = "B" THEN "b"
                ELSE IF c = "K" THEN "k" ELSE c

Lower(s) == [i \in 1..Len(s) |-> LowerChar(s[i])]

\* Python's "s in t" on strings
IsSubstr(s, t) == \E i \in 0..(Len(t) - Len(s)) : SubSeq(t, i + 1, i + Len(s)) = s

\* json.dumps of a dict of strings: {"k": "v", "k2": "v2"}
RECURSIVE JsonEntries(_)
JsonEntries(m) ==
    IF m = <<>> THEN <<>>
    ELSE <<"\"">> \o Head(m)[1] \o <<"\"", ":", " ", "\"">> \o Head(m)[2] \o <<"\"">>
         \o (IF Len(m) > 1 THEN <<",", " ">> ELSE <<>>) \o JsonEntries(Tail(m))

JsonDumps(m) == <<"{">> \o JsonEntries(m) \o <<"}">>

\* json.loads of such a text: the quoted strings, paired up as key and value
RECURSIVE JsonStrings(_, _, _)
JsonStrings(t, inside, cur) ==
    IF t = <<>> THEN <<>>
    ELSE IF Head(t) = "\""
         THEN IF inside THEN <<cur>> \o JsonStrings(Tail(t), FALSE, <<>>)
              ELSE JsonStrings(Tail(t), TRUE, <<>>)
         ELSE JsonStrings(Tail(t), inside, IF inside THEN Append(cur, Head(t)) ELSE cur)

RECURSIVE PairUp(_)
PairUp(ss) == IF Len(ss) < 2 THEN <<>>
              ELSE << <<ss[1], ss[2]>> >> \o PairUp(SubSeq(ss, 3, Len(ss)))

JsonLoads(t) == PairUp(JsonStrings(t, FALSE, <<>>))

-----------------------------------------------------------------------------
(* MemoryItem *)

MemoryItem(i, c, m, t, e) ==
    [id |-> i, content |-> c, metadata |-> m, created_at |-> t, expires_at |-> e]

Items(s) == {s[i] : i \in 1..Len(s)}
Ids(s)   == {s[i].id : i \in 1..Len(s)}

-----------------------------------------------------------------------------
(* ShortTermMemory *)

\* mutant of ExpiredAt: the boundary instant counts as expired
ExpiredAtInclusive(item, t) == item.expires_at # NoExpiry /\ t >= item.expires_at

\* the test of _cleanup_locked: expires_at is not None and now > expires_at
ExpiredAt(item, t) == item.expires_at # NoExpiry /\ t > item.expires_at

STM_add(st, content, ttl, metadata, id, t) ==
    LET expires_at == IF ttl # NoExpiry THEN t + ttl ELSE NoExpiry
        item == MemoryItem(id, content, metadata, t, expires_at)
    IN  [store |-> Append(st, item), ret |-> <<item>>]

cleanup_locked(st, t) == SelectSeq(st, LAMBDA item : ~ExpiredAt(item, t))

\* mutant of STM_get: an expired hit sweeps the whole store
STM_get_sweeping(st, item_id, t) ==
    LET found == {i \in 1..Len(st) : st[i].id = item_id}
    IN  IF found = {} THEN [store |-> st, ret |-> <<>>]
        ELSE LET item == st[CHOOSE i \in found : TRUE]
             IN  IF item.expires_at # NoExpiry /\ t > item.expires_at
                 THEN [store |-> cleanup_locked(st, t), ret |-> <<>>]
                 ELSE [store |-> st, ret |-> <<>>]

\* "return item" sits inside the expired branch, after its "return None":
\* a present, unexpired item falls off the end of the function, which is None.
STM_get(st, item_id, t) ==
    LET found == {i \in 1..Len(st) : st[i].id = item_id}
    IN  IF found = {} THEN [store |-> st, ret |-> <<>>]
        ELSE LET item == st[CHOOSE i \in found : TRUE]
             IN  IF item.expires_at # NoExpiry /\ t > item.expires_at
                 THEN [store |-> SelectSeq(st, LAMBDA x : x.id # item_id), ret |-> <<>>]
                 ELSE [store |-> st, ret |-> <<>>]

\* keyword in content.lower(), or in str(v).lower() of a metadata value,
\* or else in json.dumps(metadata).lower()
QueryMatch(item, keyword_lower) ==
    IF \/ IsSubstr(keyword_lower, Lower(item.content))
       \/ \E i \in 1..Len(item.metadata) : IsSubstr(keyword_lower, Lower(item.metadata[i][2]))
    THEN TRUE
    ELSE IsSubstr(keyword_lower, Lower(JsonDumps(item.metadata)))

RECURSIVE QueryScan(_, _, _, _)
\* the for loop of query: append a match, then break once len(matches) >= limit
QueryScan(items, keyword_lower, limit, matches) ==
    IF items = <<>> THEN matches
    ELSE IF QueryMatch(Head(items), keyword_lower)
         THEN LET m == Append(matches, Head(items))
              IN  IF Len(m) >= limit THEN m
                  ELSE QueryScan(Tail(items), keyword_lower, limit, m)
         ELSE QueryScan(Tail(items), keyword_lower, limit, matches)

STM_query(st, keyword, limit, t) ==
    LET swept == cleanup_locked(st, t)
    IN  [store |-> swept, ret |-> QueryScan(swept, Lower(keyword), limit, <<>>)]

\* mutant of STM_all_items: the list is returned without the sweep
STM_all_items_unswept(st, t) == [store |-> st, ret |-> st]

STM_all_items(st, t) ==
    LET swept == cleanup_locked(st, t) IN [store |-> swept, ret |-> swept]

STM_cleanup(st, t) == [store |-> cleanup_locked(st, t), ret |-> <<>>]

\* mutant of STM_pop_oldest: max instead of min
STM_pop_newest(st) ==
    IF st = <<>> THEN [store |-> st, ret |-> <<>>]
    ELSE LET k == CHOOSE i \in 1..Len(st) :
                      \A j \in 1..Len(st) : st[i].created_at >= st[j].created_at
         IN  [store |-> SubSeq(st, 1, k - 1) \o SubSeq(st, k + 1, Len(st)),
              ret |-> <<st[k]>>]

\* min(values, key=created_at): the first item, in dict order, of least created_at
STM_pop_oldest(st) ==
    IF st = <<>> THEN [store |-> st, ret |-> <<>>]
    ELSE LET isMin(i) == \A j \in 1..Len(st) : st[i].created_at <= st[j].created_at
             k == CHOOSE i \in 1..Len(st) :
                      isMin(i) /\ \A j \in 1..(i - 1) : ~isMin(j)
         IN  [store |-> SubSeq(st, 1, k - 1) \o SubSeq(st, k + 1, Len(st)),
              ret |-> <<st[k]>>]

-----------------------------------------------------------------------------
(* LongTermMemory *)

LTM_add(lg, content, metadata, id, t) ==
    [long |-> Append(lg, [id |-> id, content |-> content,
                          metadata |-> JsonDumps(metadata), created_at |-> t]),
     ret |-> <<MemoryItem(id, content, metadata, t, NoExpiry)>>]

\* MemoryItem(id=row[0], content=row[1], metadata=json.loads(row[2]) if row[2] else {}, ...)
RowItem(row) ==
    MemoryItem(row.id, row.content,
               IF row.metadata # <<>> THEN JsonLoads(row.metadata) ELSE <<>>,
               row.created_at, NoExpiry)

\* column LIKE '%query%': SQLite's LIKE ignores the case of ASCII letters
Like(query, text) == IsSubstr(Lower(query), Lower(text))

\* LIMIT n: the first n rows; a negative n is no limit
SqlLimit(rows, n) == IF n < 0 \/ n >= Len(rows) THEN rows ELSE SubSeq(rows, 1, n)

LTM_search(lg, query, limit) ==
    LET rows == SelectSeq(lg, LAMBDA r : Like(query, r.content) \/ Like(query, r.metadata))
        cut  == SqlLimit(rows, limit)
    IN  [i \in 1..Len(cut) |-> RowItem(cut[i])]

\* SELECT ... WHERE id = ?; fetchone(): the row as a MemoryItem, or None
LTM_get(lg, item_id) ==
    LET rows == SelectSeq(lg, LAMBDA r : r.id = item_id)
    IN  IF rows = <<>> THEN <<>> ELSE <<RowItem(rows[1])>>

\* mutant of LTM_delete: the answer is True whatever rowcount says
LTM_delete_says_true(lg, item_id) ==
    [long |-> SelectSeq(lg, LAMBDA r : r.id # item_id), ret |-> TRUE]

\* mutant of LTM_delete: DELETE ... WHERE id <= ?
LTM_delete_older_too(lg, item_id) ==
    [long |-> SelectSeq(lg, LAMBDA r : r.id > item_id),
     ret |-> \E i \in 1..Len(lg) : lg[i].id = item_id]

\* DELETE FROM memories WHERE id = ?; commit(); return cursor.rowcount > 0
LTM_delete(lg, item_id) ==
    [long |-> SelectSeq(lg, LAMBDA r : r.id # item_id),
     ret |-> \E i \in 1..Len(lg) : lg[i].id = item_id]

\* mutant of NewestFirst: no ORDER BY, the rows come in rowid order
RowidOrder(lg) == {lg}

\* the orders ORDER BY created_at DESC may give: rows of one created_at in any order
NewestFirst(lg) ==
    {s \in {[i \in 1..Len(lg) |-> lg[p[i]]] : p \in Permutations(1..Len(lg))} :
        \A i, j \in 1..Len(lg) : i < j => s[i].created_at >= s[j].created_at}

\* SELECT ... ORDER BY created_at DESC LIMIT ?: the lists all() may return
LTM_all(lg, limit) ==
    {[i \in 1..Len(SqlLimit(s, limit)) |-> RowItem(SqlLimit(s, limit)[i])] : s \in NewestFirst(lg)}

\* try: commit() finally: close(). commit() on a closed connection raises
\* and the exception leaves close(); the connection is closed either way
LTM_close(isClosed) == [closed |-> TRUE, fault |-> isClosed]

-----------------------------------------------------------------------------
(* MemoryManager *)

\* mutant of Max: the second value whatever the first
Second(a, b) == b

Max(a, b) == IF a >= b THEN a ELSE b

\* self._consolidation_threshold = max(1, int(consolidation_threshold))
MM_threshold(configured) == Max(1, configured)

RECURSIVE ConsolidateLoop(_, _, _, _, _, _)
\* for _ in range(n): old = short.pop_oldest(); if old is None: continue;
\*                    long.add(content=old.content, metadata=old.metadata)
\* long.add on a closed connection raises and ends the loop
ConsolidateLoop(st, lg, n, id, t, isClosed) ==
    IF n <= 0 THEN [store |-> st, long |-> lg, fault |-> FALSE]
    ELSE LET p == STM_pop_oldest(st)
         IN  IF p.ret = <<>> THEN ConsolidateLoop(p.store, lg, n - 1, id, t, isClosed)
             ELSE IF isClosed THEN [store |-> p.store, long |-> lg, fault |-> TRUE]
             ELSE ConsolidateLoop(p.store,
                                  LTM_add(lg, p.ret[1].content, p.ret[1].metadata, id, t).long,
                                  n - 1, id + 1, t, isClosed)

\* mutant of MM_maybe_consolidate: the count is len(self.short._store), unswept
MM_consolidate_raw_count(st, lg, th, id, t, isClosed) ==
    IF Len(st) > th THEN [store |-> st, long |-> lg, fault |-> FALSE]
    ELSE ConsolidateLoop(st, lg, Len(st) - th, id, t, isClosed)

\* mutant of MM_maybe_consolidate: one item is migrated whatever the count
MM_consolidate_one_always(st, lg, th, id, t, isClosed) ==
    ConsolidateLoop(STM_all_items(st, t).store, lg, 1, id, t, isClosed)

\* items = short.all_items(); if len(items) > threshold: return;
\* to_move_count = len(items) - threshold; the loop above
MM_maybe_consolidate(st, lg, th, id, t, isClosed) ==
    LET items == STM_all_items(st, t)
    IN  IF Len(items.ret) > th THEN [store |-> items.store, long |-> lg, fault |-> FALSE]
        ELSE ConsolidateLoop(items.store, lg, Len(items.ret) - th, id, t, isClosed)

MM_remember_short(st, lg, th, content, ttl, metadata, id, t, isClosed) ==
    LET a == STM_add(st, content, ttl, metadata, id, t)
        c == MM_maybe_consolidate(a.store, lg, th, id + 1, t, isClosed)
    IN  [store |-> c.store, long |-> c.long, ret |-> IF c.fault THEN <<>> ELSE a.ret,
         fault |-> c.fault]

\* mutant of MM_recall: a fault of long.search is caught and the short-term
\* results are returned
MM_recall_swallowing(st, lg, query, limit, t, isClosed) ==
    LET q == STM_query(st, query, limit, t)
    IN  IF Len(q.ret) < limit
        THEN LET remaining == limit - Len(q.ret)
             IN  IF isClosed
                 THEN [store |-> q.store, ret |-> q.ret, fault |-> FALSE, searched |-> <<remaining>>]
                 ELSE [store |-> q.store, ret |-> q.ret \o LTM_search(lg, query, remaining),
                       fault |-> FALSE, searched |-> <<remaining>>]
        ELSE [store |-> q.store, ret |-> q.ret, fault |-> FALSE, searched |-> NotCalled]

\* mutant of MM_recall: the long-term rows are put in front
MM_recall_long_first(st, lg, query, limit, t, isClosed) ==
    LET q == STM_query(st, query, limit, t)
    IN  IF Len(q.ret) < limit
        THEN LET remaining == limit - Len(q.ret)
             IN  IF isClosed
                 THEN [store |-> q.store, ret |-> <<>>, fault |-> TRUE, searched |-> <<remaining>>]
                 ELSE [store |-> q.store, ret |-> LTM_search(lg, query, remaining) \o q.ret,
                       fault |-> FALSE, searched |-> <<remaining>>]
        ELSE [store |-> q.store, ret |-> q.ret, fault |-> FALSE, searched |-> NotCalled]

\* results = short.query(query, limit); if len(results) < limit:
\*     results.extend(long.search(query, limit - len(results)))
\* long.search on a closed connection raises
MM_recall(st, lg, query, limit, t, isClosed) ==
    LET q == STM_query(st, query, limit, t)
    IN  IF Len(q.ret) < limit
        THEN LET remaining == limit - Len(q.ret)
             IN  IF isClosed
                 THEN [store |-> q.store, ret |-> <<>>, fault |-> TRUE, searched |-> <<remaining>>]
                 ELSE [store |-> q.store, ret |-> q.ret \o LTM_search(lg, query, remaining),
                       fault |-> FALSE, searched |-> <<remaining>>]
        ELSE [store |-> q.store, ret |-> q.ret, fault |-> FALSE, searched |-> NotCalled]

\* mutant of MM_shutdown: long.close() comes first, so its fault leaves the
\* volatile store unswept
MM_shutdown_close_first(st, t, isClosed) ==
    [store |-> IF isClosed THEN st ELSE STM_cleanup(st, t).store,
     closed |-> TRUE, fault |-> isClosed]

\* short.cleanup(); long.close(): commit() then close(); commit() on a
\* connection that is already closed raises
MM_shutdown(st, t, isClosed) ==
    [store |-> STM_cleanup(st, t).store, closed |-> TRUE, fault |-> isClosed]

-----------------------------------------------------------------------------
(* The calls, one action each *)

\* the threads that call in, and the holder of a lock nobody holds
Threads == {"t1", "t2"}
NoThread == "none"

\* what the threads store and ask for: one content, and a keyword that is in it
ThreadPayloads == { [content |-> <<"A">>, metadata |-> <<>>] }
ThreadKeywords == { <<"a">> }

\* the locals of a thread that is in no call
NoCall == [mgr |-> "none", op |-> "none", item |-> <<>>, id |-> 0,
           kw |-> <<>>, limit |-> 0, marks |-> <<>>, n |-> 0]

\* self._lock = Lock() in each __init__: nobody holds it; no thread has called yet
InitThr ==
    /\ tpc = [t \in Threads |-> "idle"]
    /\ tcall = [t \in Threads |-> NoCall]
    /\ shortLock = NoThread
    /\ longLock = NoThread
    /\ mgrLock = NoThread
    /\ keyError = FALSE

\* process_user_input has not been entered
NoMain == [pc |-> "none", mode |-> "", text |-> <<>>, snapshot |-> <<>>, submitted |-> 0,
           launched |-> 0]

\* a specification that does not follow the constructors' arguments
NotRecorded == [recorded |-> FALSE, concurrency |-> 0, threshold |-> 0]

Op(name, id, kw, limit) == [op |-> name, id |-> id, kw |-> kw, limit |-> limit]

\* what every call records: itself, its outcome, and the stores it started from
Called(op, ret, b, fault, searched) ==
    /\ lastOp' = op
    /\ lastRet' = ret
    /\ lastBool' = b
    /\ lastFault' = fault
    /\ searchLimit' = searched
    /\ pre' = [store |-> store, long |-> long]

InitMem ==
    /\ InitThr
    /\ now = 0
    /\ \E c \in ConfigThresholds : threshold = MM_threshold(c)
    /\ store = <<>>
    /\ long = <<>>
    /\ closed = FALSE
    /\ nextId = 1
    /\ lastOp = Op("init", 0, <<>>, 0)
    /\ lastRet = <<>>
    /\ lastBool = FALSE
    /\ lastFault = FALSE
    /\ searchLimit = NotCalled
    /\ pre = [store |-> <<>>, long |-> <<>>]
    /\ drained = <<>>

\* mutant of Tick: a timer sweeps the store as the clock moves
TickSweeps ==
    /\ now < MaxTime
    /\ now' = now + 1
    /\ store' = cleanup_locked(store, now + 1)
    /\ Called(Op("tick", 0, <<>>, 0), <<>>, FALSE, FALSE, NotCalled)
    /\ UNCHANGED <<threshold, long, closed, nextId, drained>>

Tick ==
    /\ now < MaxTime
    /\ now' = now + 1
    /\ Called(Op("tick", 0, <<>>, 0), <<>>, FALSE, FALSE, NotCalled)
    /\ UNCHANGED <<threshold, store, long, closed, nextId, drained>>

ShortAdd ==
    /\ nextId <= MaxIds
    /\ \E p \in Payloads, ttl \in Ttls :
          LET r == STM_add(store, p.content, ttl, p.metadata, nextId, now)
          IN  /\ store' = r.store
              /\ Called(Op("add", nextId, <<>>, 0), r.ret, FALSE, FALSE, NotCalled)
    /\ nextId' = nextId + 1
    /\ drained' = <<>>
    /\ UNCHANGED <<now, threshold, long, closed>>

ShortGet ==
    /\ \E id \in 1..MaxIds :
          LET r == STM_get(store, id, now)
          IN  /\ store' = r.store
              /\ Called(Op("get", id, <<>>, 0), r.ret, FALSE, FALSE, NotCalled)
    /\ UNCHANGED <<now, threshold, long, closed, nextId, drained>>

ShortQuery ==
    /\ \E kw \in Keywords, limit \in Limits :
          LET r == STM_query(store, kw, limit, now)
          IN  /\ store' = r.store
              /\ Called(Op("query", 0, kw, limit), r.ret, FALSE, FALSE, NotCalled)
    /\ UNCHANGED <<now, threshold, long, closed, nextId, drained>>

ShortAllItems ==
    /\ LET r == STM_all_items(store, now)
       IN  /\ store' = r.store
           /\ Called(Op("all_items", 0, <<>>, 0), r.ret, FALSE, FALSE, NotCalled)
    /\ UNCHANGED <<now, threshold, long, closed, nextId, drained>>

ShortCleanup ==
    /\ LET r == STM_cleanup(store, now)
       IN  /\ store' = r.store
           /\ Called(Op("cleanup", 0, <<>>, 0), r.ret, FALSE, FALSE, NotCalled)
    /\ UNCHANGED <<now, threshold, long, closed, nextId, drained>>

ShortPopOldest ==
    /\ LET r == STM_pop_oldest(store)
       IN  /\ store' = r.store
           /\ Called(Op("pop_oldest", 0, <<>>, 0), r.ret, FALSE, FALSE, NotCalled)
           /\ drained' = IF r.ret = <<>> THEN drained
                         ELSE Append(drained, r.ret[1].created_at)
    /\ UNCHANGED <<now, threshold, long, closed, nextId>>

RememberShort ==
    /\ nextId <= MaxIds
    /\ \E p \in Payloads, ttl \in Ttls :
          LET r == MM_remember_short(store, long, threshold, p.content, ttl, p.metadata,
                                     nextId, now, closed)
          IN  /\ store' = r.store
              /\ long' = r.long
              /\ nextId' = nextId + 1 + (Len(r.long) - Len(long))
              /\ Called(Op("remember_short", nextId, <<>>, 0), r.ret, FALSE, r.fault, NotCalled)
    /\ drained' = <<>>
    /\ UNCHANGED <<now, threshold, closed>>

RememberLong ==
    /\ nextId <= MaxIds
    /\ \E p \in Payloads :
          IF closed
          THEN /\ Called(Op("remember_long", nextId, <<>>, 0), <<>>, FALSE, TRUE, NotCalled)
               /\ UNCHANGED <<long, nextId>>
          ELSE LET r == LTM_add(long, p.content, p.metadata, nextId, now)
               IN  /\ long' = r.long
                   /\ nextId' = nextId + 1
                   /\ Called(Op("remember_long", nextId, <<>>, 0), r.ret, FALSE, FALSE, NotCalled)
    /\ UNCHANGED <<now, threshold, store, closed, drained>>

Recall ==
    /\ \E kw \in Keywords, limit \in Limits :
          LET r == MM_recall(store, long, kw, limit, now, closed)
          IN  /\ store' = r.store
              /\ Called(Op("recall", 0, kw, limit), r.ret, FALSE, r.fault, r.searched)
    /\ UNCHANGED <<now, threshold, long, closed, nextId, drained>>

ForgetLong ==
    /\ \E id \in 1..MaxIds :
          IF closed
          THEN /\ Called(Op("forget_long", id, <<>>, 0), <<>>, FALSE, TRUE, NotCalled)
               /\ UNCHANGED long
          ELSE LET r == LTM_delete(long, id)
               IN  /\ long' = r.long
                   /\ Called(Op("forget_long", id, <<>>, 0), <<>>, r.ret, FALSE, NotCalled)
    /\ UNCHANGED <<now, threshold, store, closed, nextId, drained>>

Shutdown ==
    /\ LET r == MM_shutdown(store, now, closed)
       IN  /\ store' = r.store
           /\ closed' = r.closed
           /\ Called(Op("shutdown", 0, <<>>, 0), <<>>, FALSE, r.fault, NotCalled)
    /\ UNCHANGED <<now, threshold, long, nextId, drained>>

\* the calls below are made on the LongTermMemory itself; on a closed
\* connection cursor() raises and nothing changes
LongGet ==
    /\ \E id \in 1..MaxIds :
          Called(Op("get", id, <<>>, 0), IF closed THEN <<>> ELSE LTM_get(long, id),
                 FALSE, closed, NotCalled)
    /\ UNCHANGED <<now, threshold, store, long, closed, nextId, drained>>

LongSearch ==
    /\ \E kw \in Keywords, limit \in Limits :
          Called(Op("search", 0, kw, limit),
                 IF closed THEN <<>> ELSE LTM_search(long, kw, limit),
                 FALSE, closed, NotCalled)
    /\ UNCHANGED <<now, threshold, store, long, closed, nextId, drained>>

LongAll ==
    /\ \E limit \in Limits :
          IF closed
          THEN Called(Op("all", 0, <<>>, limit), <<>>, FALSE, TRUE, NotCalled)
          ELSE \E r \in LTM_all(long, limit) :
                  Called(Op("all", 0, <<>>, limit), r, FALSE, FALSE, NotCalled)
    /\ UNCHANGED <<now, threshold, store, long, closed, nextId, drained>>

LongDelete ==
    /\ \E id \in 1..MaxIds :
          IF closed
          THEN /\ Called(Op("delete", id, <<>>, 0), <<>>, FALSE, TRUE, NotCalled)
               /\ UNCHANGED long
          ELSE LET r == LTM_delete(long, id)
               IN  /\ long' = r.long
                   /\ Called(Op("delete", id, <<>>, 0), <<>>, r.ret, FALSE, NotCalled)
    /\ UNCHANGED <<now, threshold, store, closed, nextId, drained>>

LongClose ==
    /\ LET r == LTM_close(closed)
       IN  /\ closed' = r.closed
           /\ Called(Op("close", 0, <<>>, 0), <<>>, FALSE, r.fault, NotCalled)
    /\ UNCHANGED <<now, threshold, store, long, nextId, drained>>

-----------------------------------------------------------------------------
(* TaskEngine *)

\* Optional[str]: None, history.final_result(), or str(history)
NoResult == [kind |-> "None", task |-> "", mode |-> ""]
FinalResult(e) == [kind |-> "final", task |-> e.task, mode |-> e.mode]
StrOfHistory(e) == [kind |-> "str", task |-> e.task, mode |-> e.mode]

\* history.final_result() when the agent's final text is ""
EmptyResult(e) == [kind |-> "empty", task |-> e.task, mode |-> e.mode]

\* self._concurrency = max(1, int(concurrency))
TE_concurrency(configured) == Max(1, configured)

\* coros = [_wrapped_run(t, m) for t, m in self.queue]: one per entry now queued
Coros(q) == q

\* mutant of SemFree: the gate never closes
SemAlwaysFree(value) == TRUE

\* "async with sem": the coroutine passes only while the value is positive
SemFree(value) == value > 0

\* mutant of ExecutorFaultCaught: no except clause
ExecutorFaultEscapes == FALSE

\* "except Exception" around agent.run(): the executor's fault ends in "return None"
ExecutorFaultCaught == TRUE

\* the body of run_task after create_agent
RunTaskResult(e, outcome) ==
    IF outcome = "final" THEN FinalResult(e)
    ELSE IF outcome = "empty" THEN EmptyResult(e)
    ELSE IF outcome = "str" THEN StrOfHistory(e)
    ELSE NoResult

\* mutant of Gather: the results in the order the coroutines finished
GatherAsCompleted(ur, order) == [k \in 1..Len(order) |-> ur[order[k]]]

\* results = await asyncio.gather(*coros): the results in the order of coros
Gather(ur, order) == [i \in 1..Len(ur) |-> ur[i]]

Finished(s) == s \in {"completed", "failed", "config_fault", "exec_fault"}
AllFinished == \A i \in 1..Len(units) : Finished(upc[i])
InFlight == {i \in 1..Len(units) : upc[i] \in {"admitted", "running"}}

InitTask ==
    /\ queue = <<>>
    /\ \E c \in ConfigConcurrency : concurrency = TE_concurrency(c)
    /\ units = <<>>
    /\ upc = <<>>
    /\ sem = 0
    /\ ures = <<>>
    /\ doneOrder = <<>>
    /\ rpc = "idle"
    /\ results = <<>>

AddTask ==
    /\ Len(queue) < MaxQueue
    /\ \E e \in Entries : queue' = Append(queue, e)
    /\ UNCHANGED <<concurrency, units, upc, sem, ures, doneOrder, rpc, results>>

\* task_engine.queue.clear(), by the caller of run_all once it has ended
QueueClear ==
    /\ rpc # "running"
    /\ queue # <<>>
    /\ queue' = <<>>
    /\ UNCHANGED <<concurrency, units, upc, sem, ures, doneOrder, rpc, results>>

\* run_all up to its await: a new semaphore, and one coroutine per queued entry.
\* A new call is taken once every coroutine of the previous one has ended.
RunAllStart ==
    /\ rpc # "running"
    /\ AllFinished
    /\ rpc' = "running"
    /\ sem' = concurrency
    /\ units' = Coros(queue)
    /\ upc' = [i \in 1..Len(Coros(queue)) |-> "queued"]
    /\ ures' = [i \in 1..Len(Coros(queue)) |-> NoResult]
    /\ doneOrder' = <<>>
    /\ results' = <<>>
    /\ UNCHANGED <<queue, concurrency>>

\* _wrapped_run enters "async with sem"
Admit(i) ==
    /\ upc[i] = "queued"
    /\ SemFree(sem)
    /\ sem' = sem - 1
    /\ upc' = [upc EXCEPT ![i] = "admitted"]
    /\ UNCHANGED <<queue, concurrency, units, ures, doneOrder, rpc, results>>

\* run_task: agent = create_agent(task, mode) returns, and agent.run() is awaited
CreateAgentOk(i) ==
    /\ upc[i] = "admitted"
    /\ upc' = [upc EXCEPT ![i] = "running"]
    /\ UNCHANGED <<queue, concurrency, units, sem, ures, doneOrder, rpc, results>>

\* the coroutine ends by an exception: the semaphore is released on the way out,
\* and gather hands the first exception to run_all, which raises it
UnitRaises(i, why) ==
    /\ sem' = sem + 1
    /\ upc' = [upc EXCEPT ![i] = why]
    /\ doneOrder' = Append(doneOrder, i)
    /\ rpc' = IF rpc = "running" THEN "raised" ELSE rpc
    /\ UNCHANGED <<queue, concurrency, units, ures, results>>

\* mutant of CreateAgentRaises: create_agent sits inside the try, its fault
\* ends in "return None"
CreateAgentFaultCaught(i) ==
    /\ upc[i] = "admitted"
    /\ ures' = [ures EXCEPT ![i] = NoResult]
    /\ upc' = [upc EXCEPT ![i] = "failed"]
    /\ sem' = sem + 1
    /\ doneOrder' = Append(doneOrder, i)
    /\ UNCHANGED <<queue, concurrency, units, rpc, results>>

\* run_task: create_agent raises, outside the try
CreateAgentRaises(i) ==
    /\ upc[i] = "admitted"
    /\ UnitRaises(i, "config_fault")

\* mutant of ExecFinish: a unit whose executor raised is run again
ExecFinishRetries(i) ==
    /\ upc[i] = "running"
    /\ \E outcome \in Outcomes :
          IF outcome = "raise"
          THEN /\ upc' = [upc EXCEPT ![i] = "admitted"]
               /\ UNCHANGED <<queue, concurrency, units, sem, ures, doneOrder, rpc, results>>
          ELSE /\ ures' = [ures EXCEPT ![i] = RunTaskResult(units[i], outcome)]
               /\ upc' = [upc EXCEPT ![i] = "completed"]
               /\ sem' = sem + 1
               /\ doneOrder' = Append(doneOrder, i)
               /\ UNCHANGED <<queue, concurrency, units, rpc, results>>

\* mutant of ExecFinish: the slot is kept when the executor raised
ExecFinishLeaks(i) ==
    /\ upc[i] = "running"
    /\ \E outcome \in Outcomes :
          /\ ures' = [ures EXCEPT ![i] = RunTaskResult(units[i], outcome)]
          /\ upc' = [upc EXCEPT ![i] = IF outcome = "raise" THEN "failed" ELSE "completed"]
          /\ sem' = IF outcome = "raise" THEN sem ELSE sem + 1
          /\ doneOrder' = Append(doneOrder, i)
          /\ UNCHANGED <<queue, concurrency, units, rpc, results>>

\* agent.run() ends; run_task returns the result or None; the semaphore is released
ExecFinish(i) ==
    /\ upc[i] = "running"
    /\ \E outcome \in Outcomes :
          IF outcome = "raise" /\ ~ExecutorFaultCaught
          THEN UnitRaises(i, "exec_fault")
          ELSE /\ ures' = [ures EXCEPT ![i] = RunTaskResult(units[i], outcome)]
               /\ upc' = [upc EXCEPT ![i] = IF outcome = "raise" THEN "failed" ELSE "completed"]
               /\ sem' = sem + 1
               /\ doneOrder' = Append(doneOrder, i)
               /\ UNCHANGED <<queue, concurrency, units, rpc, results>>

\* mutant of RunAllReturn: run_all drains the queue as it returns
RunAllReturnDrains ==
    /\ rpc = "running"
    /\ \A i \in 1..Len(units) : upc[i] \in {"completed", "failed"}
    /\ rpc' = "returned"
    /\ results' = Gather(ures, doneOrder)
    /\ queue' = <<>>
    /\ UNCHANGED <<concurrency, units, upc, sem, ures, doneOrder>>

\* every coroutine has returned: gather's list is what run_all returns
RunAllReturn ==
    /\ rpc = "running"
    /\ \A i \in 1..Len(units) : upc[i] \in {"completed", "failed"}
    /\ rpc' = "returned"
    /\ results' = Gather(ures, doneOrder)
    /\ UNCHANGED <<queue, concurrency, units, upc, sem, ures, doneOrder>>

-----------------------------------------------------------------------------
(* Threads: the same calls, one step for each lock taken and each body run *)

\* mutant of ShortLockFree: "with self._lock" of the store lets everyone in
ShortLockAlwaysFree(holder) == TRUE

\* mutant of MgrLockFree: "with self._lock" of the manager lets everyone in
MgrLockAlwaysFree(holder) == TRUE

\* mutant of Release: the lock stays with its holder at the end of the block
KeepLock(holder) == holder

\* "with self._lock:" is entered only while nobody holds the lock
ShortLockFree(holder) == holder = NoThread
LongLockFree(holder) == holder = NoThread
MgrLockFree(holder) == holder = NoThread

\* the end of a "with self._lock:" block, by return or by exception
Release(holder) == NoThread

\* the calls that begin with self._cleanup_locked()
Sweeps(op) == op \in {"query", "all_items", "cleanup"}

\* to_delete = [k for k, v in self._store.items() if v.expires_at and now > v.expires_at]
ToDelete(st, t) ==
    LET gone == SelectSeq(st, LAMBDA item : ExpiredAt(item, t))
    IN  [i \in 1..Len(gone) |-> gone[i].id]

RECURSIVE DeleteKeys(_, _)
\* for k in to_delete: del self._store[k]; a key that is gone raises KeyError
DeleteKeys(st, ks) ==
    IF ks = <<>> THEN [store |-> st, fault |-> FALSE]
    ELSE IF Head(ks) \notin Ids(st) THEN [store |-> st, fault |-> TRUE]
    ELSE DeleteKeys(SelectSeq(st, LAMBDA x : x.id # Head(ks)), Tail(ks))

\* what the body of a ShortTermMemory call does under the lock: the store after
\* it, the length of the list it returns, the item it popped, and its fault
ShortEffect(c, st, t) ==
    LET swept == DeleteKeys(st, c.marks)
    IN  IF c.op = "add"
        THEN [store |-> Append(st, c.item[1]), n |-> 0, popped |-> <<>>, fault |-> FALSE]
        ELSE IF c.op = "get"
        THEN [store |-> STM_get(st, c.id, t).store, n |-> 0, popped |-> <<>>, fault |-> FALSE]
        ELSE IF c.op = "pop_oldest"
        THEN [store |-> STM_pop_oldest(st).store, n |-> 0,
              popped |-> STM_pop_oldest(st).ret, fault |-> FALSE]
        ELSE IF swept.fault
        THEN [store |-> swept.store, n |-> 0, popped |-> <<>>, fault |-> TRUE]
        ELSE IF c.op = "query"
        THEN [store |-> swept.store,
              n |-> Len(QueryScan(swept.store, Lower(c.kw), c.limit, <<>>)),
              popped |-> <<>>, fault |-> FALSE]
        ELSE IF c.op = "all_items"
        THEN [store |-> swept.store, n |-> Len(swept.store), popped |-> <<>>, fault |-> FALSE]
        ELSE [store |-> swept.store, n |-> 0, popped |-> <<>>, fault |-> FALSE]

\* where the thread goes on: its position, its locals, whether it leaves the
\* manager's block, and whether it draws a new uuid4
Goes(pc, c, leavesMgr, draws) == [pc |-> pc, call |-> c, leavesMgr |-> leavesMgr, draws |-> draws]

\* the call is over; an exception or a return inside _maybe_consolidate leaves its block
Returns(c) == Goes("idle", NoCall, c.mgr = "remember_short" /\ c.op # "add", FALSE)

\* for _ in range(to_move_count): old = self.short.pop_oldest()
LoopNext(c, remaining) ==
    IF remaining <= 0 THEN Returns(c)
    ELSE Goes("s_wait", [c EXCEPT !.op = "pop_oldest", !.n = remaining, !.marks = <<>>],
              FALSE, FALSE)

\* after a ShortTermMemory call returns to MemoryManager
AfterShort(c, e, id, t) ==
    IF e.fault \/ c.mgr = "none" THEN Returns(c)
    ELSE IF c.mgr = "remember_short"
    THEN IF c.op = "add" THEN Goes("m_wait", [c EXCEPT !.item = <<>>], FALSE, FALSE)
         ELSE IF c.op = "all_items"
         THEN Goes("m_test", [c EXCEPT !.n = e.n, !.marks = <<>>], FALSE, FALSE)
         ELSE IF e.popped = <<>> THEN LoopNext(c, c.n - 1)
         ELSE Goes("l_wait",
                   [c EXCEPT !.op = "ladd",
                             !.item = <<MemoryItem(id, e.popped[1].content,
                                                   e.popped[1].metadata, t, NoExpiry)>>],
                   FALSE, TRUE)
    ELSE IF c.mgr = "recall"
    THEN IF e.n < c.limit
         THEN Goes("l_wait", [c EXCEPT !.op = "lsearch", !.limit = c.limit - e.n,
                                       !.marks = <<>>], FALSE, FALSE)
         ELSE Returns(c)
    ELSE Goes("l_wait", [c EXCEPT !.op = "lclose", !.marks = <<>>], FALSE, FALSE)

\* after a LongTermMemory call returns to MemoryManager
AfterLong(c, fault) ==
    IF ~fault /\ c.mgr = "remember_short" THEN LoopNext(c, c.n - 1) ELSE Returns(c)

\* a thread begins a call: the locals are set, and the first lock is next
Begins(t, pc, c) ==
    /\ tpc[t] = "idle"
    /\ tpc' = [tpc EXCEPT ![t] = pc]
    /\ tcall' = [tcall EXCEPT ![t] = c]
    /\ UNCHANGED <<now, threshold, store, long, closed, callVars,
                   shortLock, longLock, mgrLock, keyError>>

\* short.add up to its "with": uuid4(), time.time() and the item
T_Add(t, mgr) ==
    /\ nextId <= MaxIds
    /\ nextId' = nextId + 1
    /\ \E p \in ThreadPayloads, ttl \in Ttls :
          Begins(t, "s_wait",
                 [NoCall EXCEPT !.mgr = mgr, !.op = "add",
                      !.item = STM_add(<<>>, p.content, ttl, p.metadata, nextId, now).ret])

T_Get(t) ==
    /\ \E id \in 1..MaxIds : Begins(t, "s_wait", [NoCall EXCEPT !.op = "get", !.id = id])
    /\ UNCHANGED nextId

T_Query(t, mgr) ==
    /\ \E kw \in ThreadKeywords, limit \in Limits :
          Begins(t, "s_wait", [NoCall EXCEPT !.mgr = mgr, !.op = "query",
                                             !.kw = kw, !.limit = limit])
    /\ UNCHANGED nextId

T_AllItems(t) ==
    /\ Begins(t, "s_wait", [NoCall EXCEPT !.op = "all_items"])
    /\ UNCHANGED nextId

T_Cleanup(t, mgr) ==
    /\ Begins(t, "s_wait", [NoCall EXCEPT !.mgr = mgr, !.op = "cleanup"])
    /\ UNCHANGED nextId

T_PopOldest(t) ==
    /\ Begins(t, "s_wait", [NoCall EXCEPT !.op = "pop_oldest"])
    /\ UNCHANGED nextId

\* item = self.short.add(content, ttl=ttl, metadata=metadata), up to its "with"
T_RememberShort(t) == T_Add(t, "remember_short")

\* return self.long.add(content, metadata=metadata), up to its "with"
T_RememberLong(t) ==
    /\ nextId <= MaxIds
    /\ nextId' = nextId + 1
    /\ \E p \in ThreadPayloads :
          Begins(t, "l_wait",
                 [NoCall EXCEPT !.mgr = "remember_long", !.op = "ladd",
                      !.item = <<MemoryItem(nextId, p.content, p.metadata, now, NoExpiry)>>])

\* results.extend(self.short.query(query, limit=limit)), up to its "with"
T_Recall(t) == T_Query(t, "recall")

\* return self.long.delete(item_id), up to its "with"
T_ForgetLong(t) ==
    /\ \E id \in 1..MaxIds :
          Begins(t, "l_wait", [NoCall EXCEPT !.mgr = "forget_long", !.op = "ldelete", !.id = id])
    /\ UNCHANGED nextId

\* self.short.cleanup(), up to its "with"
T_Shutdown(t) == T_Cleanup(t, "shutdown")

\* "with self._lock:" of the ShortTermMemory
ShortAcquire(t) ==
    /\ tpc[t] = "s_wait"
    /\ ShortLockFree(shortLock)
    /\ shortLock' = t
    /\ tpc' = [tpc EXCEPT ![t] = IF Sweeps(tcall[t].op) THEN "s_mark" ELSE "s_body"]
    /\ UNCHANGED <<memVars, tcall, longLock, mgrLock, keyError>>

\* _cleanup_locked: now = time.time(); to_delete = [...]
SweepMark(t) ==
    /\ tpc[t] = "s_mark"
    /\ tcall' = [tcall EXCEPT ![t].marks = ToDelete(store, now)]
    /\ tpc' = [tpc EXCEPT ![t] = "s_body"]
    /\ UNCHANGED <<memVars, shortLock, longLock, mgrLock, keyError>>

\* the rest of the block: the deletions of the sweep, the call's own work,
\* the end of the block; then the caller goes on
ShortBody(t) ==
    /\ tpc[t] = "s_body"
    /\ LET e == ShortEffect(tcall[t], store, now)
           g == AfterShort(tcall[t], e, nextId, now)
       IN  /\ store' = e.store
           /\ keyError' = (keyError \/ e.fault)
           /\ shortLock' = Release(shortLock)
           /\ mgrLock' = IF g.leavesMgr THEN Release(mgrLock) ELSE mgrLock
           /\ nextId' = IF g.draws THEN nextId + 1 ELSE nextId
           /\ tpc' = [tpc EXCEPT ![t] = g.pc]
           /\ tcall' = [tcall EXCEPT ![t] = g.call]
    /\ UNCHANGED <<now, threshold, long, closed, callVars, longLock>>

\* _maybe_consolidate: "with self._lock:", then items = self.short.all_items()
MgrAcquire(t) ==
    /\ tpc[t] = "m_wait"
    /\ MgrLockFree(mgrLock)
    /\ mgrLock' = t
    /\ tpc' = [tpc EXCEPT ![t] = "s_wait"]
    /\ tcall' = [tcall EXCEPT ![t].op = "all_items"]
    /\ UNCHANGED <<memVars, shortLock, longLock, keyError>>

\* if len(items) > threshold: return; to_move_count = len(items) - threshold;
\* the loop's first turn, or the end of the block
ConsolidateTest(t) ==
    /\ tpc[t] = "m_test"
    /\ LET g == IF tcall[t].n > threshold THEN Returns(tcall[t])
                ELSE LoopNext(tcall[t], tcall[t].n - threshold)
       IN  /\ mgrLock' = IF g.leavesMgr THEN Release(mgrLock) ELSE mgrLock
           /\ tpc' = [tpc EXCEPT ![t] = g.pc]
           /\ tcall' = [tcall EXCEPT ![t] = g.call]
    /\ UNCHANGED <<memVars, shortLock, longLock, keyError>>

\* "with self._lock:" of the LongTermMemory
LongAcquire(t) ==
    /\ tpc[t] = "l_wait"
    /\ LongLockFree(longLock)
    /\ longLock' = t
    /\ tpc' = [tpc EXCEPT ![t] = "l_body"]
    /\ UNCHANGED <<memVars, tcall, shortLock, mgrLock, keyError>>

\* the block of add, search, delete or close; on a closed connection
\* cursor() and commit() raise
LongBody(t) ==
    /\ tpc[t] = "l_body"
    /\ LET c == tcall[t]
           g == AfterLong(c, closed)
       IN  /\ long' = IF closed THEN long
                      ELSE IF c.op = "ladd"
                      THEN LTM_add(long, c.item[1].content, c.item[1].metadata,
                                   c.item[1].id, c.item[1].created_at).long
                      ELSE IF c.op = "ldelete" THEN LTM_delete(long, c.id).long
                      ELSE long
           /\ closed' = IF c.op = "lclose" THEN LTM_close(closed).closed ELSE closed
           /\ longLock' = Release(longLock)
           /\ mgrLock' = IF g.leavesMgr THEN Release(mgrLock) ELSE mgrLock
           /\ tpc' = [tpc EXCEPT ![t] = g.pc]
           /\ tcall' = [tcall EXCEPT ![t] = g.call]
    /\ UNCHANGED <<now, threshold, store, nextId, callVars, shortLock, keyError>>

\* time passes while threads are in their calls
ClockAdvances ==
    /\ now < MaxTime
    /\ now' = now + 1
    /\ UNCHANGED <<threshold, store, long, closed, nextId, callVars, thrVars>>

\* threads calling the MemoryManager
NextThreads ==
    \/ (ClockAdvances /\ UNCHANGED <<taskVars, main, passed>>)
    \/ \E t \in Threads :
          \/ (T_RememberShort(t) /\ UNCHANGED <<taskVars, main, passed>>)
          \/ (T_RememberLong(t) /\ UNCHANGED <<taskVars, main, passed>>)
          \/ (T_Recall(t) /\ UNCHANGED <<taskVars, main, passed>>)
          \/ (T_ForgetLong(t) /\ UNCHANGED <<taskVars, main, passed>>)
          \/ (T_Shutdown(t) /\ UNCHANGED <<taskVars, main, passed>>)
          \/ (ShortAcquire(t) /\ UNCHANGED <<taskVars, main, passed>>)
          \/ (SweepMark(t) /\ UNCHANGED <<taskVars, main, passed>>)
          \/ (ShortBody(t) /\ UNCHANGED <<taskVars, main, passed>>)
          \/ (MgrAcquire(t) /\ UNCHANGED <<taskVars, main, passed>>)
          \/ (ConsolidateTest(t) /\ UNCHANGED <<taskVars, main, passed>>)
          \/ (LongAcquire(t) /\ UNCHANGED <<taskVars, main, passed>>)
          \/ (LongBody(t) /\ UNCHANGED <<taskVars, main, passed>>)

\* threads calling remember_short, and nothing else
NextConsolidate ==
    \/ (ClockAdvances /\ UNCHANGED <<taskVars, main, passed>>)
    \/ \E t \in Threads :
          \/ (T_RememberShort(t) /\ UNCHANGED <<taskVars, main, passed>>)
          \/ (ShortAcquire(t) /\ UNCHANGED <<taskVars, main, passed>>)
          \/ (SweepMark(t) /\ UNCHANGED <<taskVars, main, passed>>)
          \/ (ShortBody(t) /\ UNCHANGED <<taskVars, main, passed>>)
          \/ (MgrAcquire(t) /\ UNCHANGED <<taskVars, main, passed>>)
          \/ (ConsolidateTest(t) /\ UNCHANGED <<taskVars, main, passed>>)

\* threads calling one ShortTermMemory
NextStoreThreads ==
    \/ (ClockAdvances /\ UNCHANGED <<taskVars, main, passed>>)
    \/ \E t \in Threads :
          \/ (T_Add(t, "none") /\ UNCHANGED <<taskVars, main, passed>>)
          \/ (T_Get(t) /\ UNCHANGED <<taskVars, main, passed>>)
          \/ (T_Query(t, "none") /\ UNCHANGED <<taskVars, main, passed>>)
          \/ (T_AllItems(t) /\ UNCHANGED <<taskVars, main, passed>>)
          \/ (T_Cleanup(t, "none") /\ UNCHANGED <<taskVars, main, passed>>)
          \/ (T_PopOldest(t) /\ UNCHANGED <<taskVars, main, passed>>)
          \/ (ShortAcquire(t) /\ UNCHANGED <<taskVars, main, passed>>)
          \/ (SweepMark(t) /\ UNCHANGED <<taskVars, main, passed>>)
          \/ (ShortBody(t) /\ UNCHANGED <<taskVars, main, passed>>)

-----------------------------------------------------------------------------
(* process_user_input: the interactive loop of main.py *)

\* ttl=3600 of the remember_short call
MainTtl == 3600

\* what the user types, and the --mode the program was started with
MainTexts == { <<"A">>, <<"b">> }
MainModes == { "browser", "code" }

\* the mode as the text json.dumps writes
ModeText(mode) ==
    IF mode = "browser" THEN <<"b", "r", "o", "w", "s", "e", "r">> ELSE <<"c", "o", "d", "e">>

\* metadata={"type": "user_task", "mode": mode}
UserTaskMetadata(mode) ==
    << << <<"t", "y", "p", "e">>, <<"u", "s", "e", "r", "_", "t", "a", "s", "k">> >>,
       << <<"m", "o", "d", "e">>, ModeText(mode) >> >>

\* metadata={"type": "task_result", "original_task": task_text, "mode": task_mode}
TaskResultMetadata(entry) ==
    << << <<"t", "y", "p", "e">>, <<"t", "a", "s", "k", "_", "r", "e", "s", "u", "l", "t">> >>,
       << <<"o", "r", "i", "g", "i", "n", "a", "l", "_", "t", "a", "s", "k">>, entry.task >>,
       << <<"m", "o", "d", "e">>, ModeText(entry.mode) >> >>

\* mutant of Truthy: "if result is not None"
NotNone(result) == result.kind # "None"

\* "if result:": None and "" are false
Truthy(result) == result.kind \notin {"None", "empty"}

RECURSIVE StoreResults(_, _, _, _, _)
\* for (task_text, task_mode), result in zip(tasks_list, results):
\*     if result: memory.remember_long(content=result, metadata={...})
StoreResults(lg, tasks, res, id, t) ==
    IF tasks = <<>> \/ res = <<>> THEN [long |-> lg, id |-> id]
    ELSE IF Truthy(Head(res))
    THEN StoreResults(LTM_add(lg, Head(res), TaskResultMetadata(Head(tasks)), id, t).long,
                      Tail(tasks), Tail(res), id + 1, t)
    ELSE StoreResults(lg, Tail(tasks), Tail(res), id, t)

\* user_input = input(...).strip(), not empty; memory.remember_short(content=user_input, ...)
MainRemember ==
    /\ main.pc = "input"
    /\ main.submitted < MaxTasks
    /\ Len(queue) < MaxQueue
    /\ \E text \in MainTexts :
          LET r == MM_remember_short(store, long, threshold, text, MainTtl,
                                     UserTaskMetadata(main.mode), nextId, now, closed)
          IN  /\ store' = r.store
              /\ long' = r.long
              /\ nextId' = nextId + 1 + (Len(r.long) - Len(long))
              /\ Called(Op("remember_short", nextId, <<>>, 0), r.ret, FALSE, r.fault, NotCalled)
              /\ main' = [main EXCEPT !.pc = "enqueue", !.text = text, !.submitted = @ + 1]
    /\ drained' = <<>>
    /\ UNCHANGED <<now, threshold, closed, taskVars, thrVars>>

\* task_engine.add_task(user_input, mode=mode)
MainAddTask ==
    /\ main.pc = "enqueue"
    /\ queue' = Append(queue, [task |-> main.text, mode |-> main.mode])
    /\ main' = [main EXCEPT !.pc = "choice"]
    /\ UNCHANGED <<memVars, concurrency, units, upc, sem, ures, doneOrder, rpc, results, thrVars>>

\* the user answers y: another task
MainMore ==
    /\ main.pc = "choice"
    /\ main' = [main EXCEPT !.pc = "input"]
    /\ UNCHANGED <<memVars, taskVars, thrVars>>

\* the inner loop ends with tasks queued:
\* tasks_list = list(task_engine.queue); results = await task_engine.run_all()
MainRunAll ==
    /\ main.pc \in {"choice", "input"}
    /\ queue # <<>>
    /\ RunAllStart
    /\ main' = [main EXCEPT !.pc = "await", !.snapshot = queue,
                             !.launched = @ + Len(Coros(queue))]
    /\ UNCHANGED <<memVars, thrVars>>

\* mutant of MainStore: the queue is not cleared after the results are stored
MainStoreKeepsQueue ==
    /\ main.pc = "await"
    /\ rpc = "returned"
    /\ LET r == StoreResults(long, main.snapshot, results, nextId, now)
       IN  /\ long' = r.long
           /\ nextId' = r.id
    /\ Called(Op("store_results", 0, <<>>, 0), <<>>, FALSE, FALSE, NotCalled)
    /\ main' = [main EXCEPT !.pc = "input"]
    /\ UNCHANGED <<now, threshold, store, closed, drained, taskVars, thrVars>>

\* run_all has returned: the loop over zip(tasks_list, results), then queue.clear()
MainStore ==
    /\ main.pc = "await"
    /\ rpc = "returned"
    /\ LET r == StoreResults(long, main.snapshot, results, nextId, now)
       IN  /\ long' = r.long
           /\ nextId' = r.id
    /\ Called(Op("store_results", 0, <<>>, 0), <<>>, FALSE, FALSE, NotCalled)
    /\ queue' = <<>>
    /\ main' = [main EXCEPT !.pc = "input"]
    /\ UNCHANGED <<now, threshold, store, closed, drained,
                   concurrency, units, upc, sem, ures, doneOrder, rpc, results, thrVars>>

\* the loop is left: by the user (n, Ctrl+C) at a prompt, or by the exception
\* run_all raised; "finally: memory.shutdown()"
MainLeave ==
    /\ \/ main.pc \in {"input", "choice"}
       \/ main.pc = "await" /\ rpc = "raised"
    /\ LET r == MM_shutdown(store, now, closed)
       IN  /\ store' = r.store
           /\ closed' = r.closed
           /\ Called(Op("shutdown", 0, <<>>, 0), <<>>, FALSE, r.fault, NotCalled)
    /\ main' = [main EXCEPT !.pc = "done"]
    /\ UNCHANGED <<now, threshold, long, nextId, drained, taskVars, thrVars>>

\* the loop, and the coroutines of the run_all it awaits
NextMain ==
    \/ (MainRemember /\ UNCHANGED passed)
    \/ (MainAddTask /\ UNCHANGED passed)
    \/ (MainMore /\ UNCHANGED passed)
    \/ (MainRunAll /\ UNCHANGED passed)
    \/ (MainStore /\ UNCHANGED passed)
    \/ (MainLeave /\ UNCHANGED passed)
    \/ \E i \in 1..Len(units) :
          \/ (Admit(i) /\ UNCHANGED <<memVars, thrVars, main, passed>>)
          \/ (CreateAgentOk(i) /\ UNCHANGED <<memVars, thrVars, main, passed>>)
          \/ (CreateAgentRaises(i) /\ UNCHANGED <<memVars, thrVars, main, passed>>)
          \/ (ExecFinish(i) /\ UNCHANGED <<memVars, thrVars, main, passed>>)
    \/ (RunAllReturn /\ UNCHANGED <<memVars, thrVars, main, passed>>)

\* main(): TaskEngine(concurrency=args.concurrency), MemoryManager(), and the
\* loop entered with args.mode
InitMain ==
    /\ InitMem
    /\ threshold = MM_threshold(1)
    /\ InitTask
    /\ \E mode \in MainModes : main = [NoMain EXCEPT !.pc = "input", !.mode = mode]
    /\ passed = NotRecorded

SpecMain == InitMain /\ [][NextMain]_vars

\* calls made on the ShortTermMemory alone
NextStore ==
    \/ (Tick /\ UNCHANGED <<taskVars, thrVars, main, passed>>)
    \/ (ShortAdd /\ UNCHANGED <<taskVars, thrVars, main, passed>>)
    \/ (ShortGet /\ UNCHANGED <<taskVars, thrVars, main, passed>>)
    \/ (ShortQuery /\ UNCHANGED <<taskVars, thrVars, main, passed>>)
    \/ (ShortAllItems /\ UNCHANGED <<taskVars, thrVars, main, passed>>)
    \/ (ShortCleanup /\ UNCHANGED <<taskVars, thrVars, main, passed>>)
    \/ (ShortPopOldest /\ UNCHANGED <<taskVars, thrVars, main, passed>>)

\* calls made on the MemoryManager
NextMem ==
    \/ (Tick /\ UNCHANGED <<taskVars, thrVars, main, passed>>)
    \/ (RememberShort /\ UNCHANGED <<taskVars, thrVars, main, passed>>)
    \/ (RememberLong /\ UNCHANGED <<taskVars, thrVars, main, passed>>)
    \/ (Recall /\ UNCHANGED <<taskVars, thrVars, main, passed>>)
    \/ (ForgetLong /\ UNCHANGED <<taskVars, thrVars, main, passed>>)

\* the calls of a manager that change what it holds, shutdown among them
NextShutdown ==
    \/ (Tick /\ UNCHANGED <<taskVars, thrVars, main, passed>>)
    \/ (RememberShort /\ UNCHANGED <<taskVars, thrVars, main, passed>>)
    \/ (RememberLong /\ UNCHANGED <<taskVars, thrVars, main, passed>>)
    \/ (ForgetLong /\ UNCHANGED <<taskVars, thrVars, main, passed>>)
    \/ (Shutdown /\ UNCHANGED <<taskVars, thrVars, main, passed>>)

\* calls on a manager whose persistent store may have been closed
NextFaults ==
    \/ (RememberShort /\ UNCHANGED <<taskVars, thrVars, main, passed>>)
    \/ (RememberLong /\ UNCHANGED <<taskVars, thrVars, main, passed>>)
    \/ (Recall /\ UNCHANGED <<taskVars, thrVars, main, passed>>)
    \/ (ForgetLong /\ UNCHANGED <<taskVars, thrVars, main, passed>>)
    \/ (Shutdown /\ UNCHANGED <<taskVars, thrVars, main, passed>>)

\* the store of a manager whose engine is constructed and left alone
InitStore ==
    /\ main = NoMain
    /\ passed = NotRecorded
    /\ InitMem
    /\ threshold = MM_threshold(1)
    /\ InitTask
    /\ concurrency = TE_concurrency(1)

\* a manager of any configured threshold; the engine is left alone
InitManager ==
    /\ main = NoMain
    /\ passed = NotRecorded
    /\ InitMem
    /\ InitTask
    /\ concurrency = TE_concurrency(1)

SpecStore == InitStore /\ [][NextStore]_vars

SpecMem == InitManager /\ [][NextMem]_vars

SpecShutdown == InitManager /\ [][NextShutdown]_vars

SpecFaults == InitStore /\ [][NextFaults]_vars

\* calls made on the LongTermMemory, by itself or through the manager's
\* remember_long and forget_long
NextLong ==
    \/ (Tick /\ UNCHANGED <<taskVars, thrVars, main, passed>>)
    \/ (RememberLong /\ UNCHANGED <<taskVars, thrVars, main, passed>>)
    \/ (ForgetLong /\ UNCHANGED <<taskVars, thrVars, main, passed>>)
    \/ (LongGet /\ UNCHANGED <<taskVars, thrVars, main, passed>>)
    \/ (LongSearch /\ UNCHANGED <<taskVars, thrVars, main, passed>>)
    \/ (LongAll /\ UNCHANGED <<taskVars, thrVars, main, passed>>)
    \/ (LongDelete /\ UNCHANGED <<taskVars, thrVars, main, passed>>)
    \/ (LongClose /\ UNCHANGED <<taskVars, thrVars, main, passed>>)

InitLong ==
    /\ main = NoMain
    /\ passed = NotRecorded
    /\ InitMem
    /\ threshold = MM_threshold(1)
    /\ InitTask
    /\ concurrency = TE_concurrency(1)

SpecLong == InitLong /\ [][NextLong]_vars

InitThreads ==
    /\ main = NoMain
    /\ passed = NotRecorded
    /\ InitMem
    /\ threshold = MM_threshold(1)
    /\ InitTask
    /\ concurrency = TE_concurrency(1)

SpecThreads == InitThreads /\ [][NextThreads]_vars

SpecConsolidate == InitThreads /\ [][NextConsolidate]_vars

SpecStoreThreads == InitThreads /\ [][NextStoreThreads]_vars

\* every call that reaches the rows of the LongTermMemory: its own, recall,
\* and remember_short with its consolidation
NextRows ==
    \/ (Tick /\ UNCHANGED <<taskVars, thrVars, main, passed>>)
    \/ (RememberShort /\ UNCHANGED <<taskVars, thrVars, main, passed>>)
    \/ (RememberLong /\ UNCHANGED <<taskVars, thrVars, main, passed>>)
    \/ (Recall /\ UNCHANGED <<taskVars, thrVars, main, passed>>)
    \/ (LongGet /\ UNCHANGED <<taskVars, thrVars, main, passed>>)
    \/ (LongSearch /\ UNCHANGED <<taskVars, thrVars, main, passed>>)
    \/ (LongAll /\ UNCHANGED <<taskVars, thrVars, main, passed>>)
    \/ (LongDelete /\ UNCHANGED <<taskVars, thrVars, main, passed>>)

SpecRows == InitLong /\ [][NextRows]_vars

NextTask ==
    \/ (AddTask /\ UNCHANGED <<memVars, thrVars, main, passed>>)
    \/ (QueueClear /\ UNCHANGED <<memVars, thrVars, main, passed>>)
    \/ (RunAllStart /\ UNCHANGED <<memVars, thrVars, main, passed>>)
    \/ (\E i \in 1..Len(units) : Admit(i) /\ UNCHANGED <<memVars, thrVars, main, passed>>)
    \/ (\E i \in 1..Len(units) : CreateAgentOk(i) /\ UNCHANGED <<memVars, thrVars, main, passed>>)
    \/ (\E i \in 1..Len(units) : CreateAgentRaises(i) /\ UNCHANGED <<memVars, thrVars, main, passed>>)
    \/ (\E i \in 1..Len(units) : ExecFinish(i) /\ UNCHANGED <<memVars, thrVars, main, passed>>)
    \/ (RunAllReturn /\ UNCHANGED <<memVars, thrVars, main, passed>>)

\* an engine of any configured concurrency; the memory manager is left alone
InitEngine ==
    /\ main = NoMain
    /\ passed = NotRecorded
    /\ InitMem
    /\ threshold = MM_threshold(1)
    /\ InitTask

SpecTask == InitEngine /\ [][NextTask]_vars

\* what the constructed engine and manager are used for first: tasks queued
\* and let through the gate, items remembered
NextConfig ==
    \/ (RememberShort /\ UNCHANGED <<taskVars, thrVars, main, passed>>)
    \/ (AddTask /\ UNCHANGED <<memVars, thrVars, main, passed>>)
    \/ (RunAllStart /\ UNCHANGED <<memVars, thrVars, main, passed>>)
    \/ (\E i \in 1..Len(units) : Admit(i) /\ UNCHANGED <<memVars, thrVars, main, passed>>)

\* TaskEngine(concurrency=c) and MemoryManager(consolidation_threshold=t), for
\* integers c and t of either sign
InitConfig ==
    /\ main = NoMain
    /\ InitMem
    /\ InitTask
    /\ \E c \in ConfigConcurrency, t \in ConfigThresholds :
          /\ concurrency = TE_concurrency(c)
          /\ threshold = MM_threshold(t)
          /\ passed = [recorded |-> TRUE, concurrency |-> c, threshold |-> t]

SpecConfig == InitConfig /\ [][NextConfig]_vars

\* what the coroutine of entry i does next, whichever of its steps it is at
UnitStep(i) ==
    /\ i \in 1..Len(units)
    /\ (Admit(i) \/ CreateAgentOk(i) \/ CreateAgentRaises(i) \/ ExecFinish(i))
    /\ UNCHANGED <<memVars, thrVars, main, passed>>

\* the event loop runs every coroutine that can go on: one that the semaphore
\* lets in enters, create_agent ends, and gather's waiter is woken; every
\* agent.run() awaited comes to an end
SpecTaskFair ==
    /\ InitEngine
    /\ [][NextTask]_vars
    /\ \A i \in 1..MaxQueue : WF_vars(UnitStep(i))
    /\ WF_vars(RunAllReturn /\ UNCHANGED <<memVars, thrVars, main, passed>>)

-----------------------------------------------------------------------------
(* Claims about ShortTermMemory, checked under SpecStore *)

NoneOrAfter(item, t) == item.expires_at = NoExpiry \/ item.expires_at > t
PastExpiry(item, t)  == item.expires_at # NoExpiry /\ t > item.expires_at
IsSweep(op) == op \in {"query", "all_items", "cleanup"}

\* C1: get(id) returns the stored item whenever an item with that id is in
\* the store and is live (no expiry, or its expiry instant not yet reached).
C1_GetReturnsLiveItem ==
    lastOp.op = "get" =>
        \A item \in Items(pre.store) :
            (item.id = lastOp.id /\ NoneOrAfter(item, now)) => lastRet = <<item>>

\* C3, as stated: an item with a ttl is expired at every instant now >= expires_at,
\* the boundary included: a sweep at that instant leaves only items with
\* expires_at > now, and get of such an item removes it.
C3_ExpiredFromBoundaryOn ==
    /\ IsSweep(lastOp.op) => \A item \in Items(store) : NoneOrAfter(item, now)
    /\ lastOp.op = "get" =>
          \A item \in Items(pre.store) :
              (item.id = lastOp.id /\ ~NoneOrAfter(item, now)) =>
                  (item \notin Items(store) /\ lastRet = <<>>)

\* C3, amended: an item with a ttl is expired at every instant now > expires_at:
\* get of it returns absent and deletes it, and a sweep removes it; at every
\* instant now <= expires_at, the boundary included, get and the sweep leave it
\* in the store.
C3_ExpiredOnlyAfterExpiry ==
    \A item \in Items(pre.store) :
        /\ IsSweep(lastOp.op) => (item \in Items(store) <=> ~PastExpiry(item, now))
        /\ (lastOp.op = "get" /\ item.id = lastOp.id) =>
              /\ item \in Items(store) <=> ~PastExpiry(item, now)
              /\ PastExpiry(item, now) => lastRet = <<>>

\* a sweep that removed an item past its expiry and kept one at its boundary instant
C3_Witness ==
    /\ IsSweep(lastOp.op)
    /\ \E x \in Items(pre.store) : PastExpiry(x, now) /\ x \notin Items(store)
    /\ \E y \in Items(store) : y.expires_at = now

\* C4: query and all_items never return an item whose expires_at is earlier
\* than the instant of the call, and the store they leave holds exactly the
\* items that were not expired at that instant: none of those is removed and
\* no expired one survives.
C4_SweepLeavesLiveSet ==
    lastOp.op \in {"query", "all_items"} =>
        /\ \A i \in 1..Len(lastRet) :
              /\ ~(lastRet[i].expires_at # NoExpiry /\ lastRet[i].expires_at < now)
              /\ lastRet[i] \in Items(store)
        /\ Items(store) =
              {x \in Items(pre.store) : ~(x.expires_at # NoExpiry /\ x.expires_at < now)}
        /\ Len(store) = Cardinality(Items(store))

\* all_items that swept one item and returned another
C4_Witness ==
    /\ lastOp.op = "all_items"
    /\ Len(pre.store) = 2
    /\ Len(store) = 1
    /\ lastRet = store

NonDecreasing(s) == \A i \in 1..(Len(s) - 1) : s[i] <= s[i + 1]

\* C10: pop_oldest removes and returns the item of least created_at among all
\* stored items, expired or not, and returns absent on an empty store; pops
\* with no add between them come out in non-decreasing created_at order.
C10_PopOldestIsMinimum ==
    /\ NonDecreasing(drained)
    /\ lastOp.op = "pop_oldest" =>
          IF pre.store = <<>> THEN lastRet = <<>> /\ store = <<>>
          ELSE /\ Len(lastRet) = 1
               /\ lastRet[1] \in Items(pre.store)
               /\ \A x \in Items(pre.store) : lastRet[1].created_at <= x.created_at
               /\ Items(store) = Items(pre.store) \ {lastRet[1]}
               /\ Len(store) = Len(pre.store) - 1

\* a pop from two items created at different instants: the older one comes
\* out although it has expired, and the other stays
C10_Witness ==
    /\ lastOp.op = "pop_oldest"
    /\ Len(pre.store) = 2
    /\ Len(store) = 1
    /\ lastRet # <<>>
    /\ PastExpiry(lastRet[1], now)
    /\ lastRet[1].created_at < store[1].created_at

-----------------------------------------------------------------------------
(* Claims about MemoryManager, checked under SpecMem *)

\* C2: after remember_short, if the number of volatile items exceeded the
\* threshold, then exactly (count - threshold) items, the oldest ones, have
\* moved to the persistent store and the volatile store holds threshold items.
C2_ConsolidationTrimsToThreshold ==
    lastOp.op = "remember_short" =>
        LET count == Len(cleanup_locked(pre.store, now)) + 1
        IN  count > threshold =>
                /\ Len(store) = threshold
                /\ Len(long) = Len(pre.long) + (count - threshold)

\* C8: recall(query, limit) never returns more than limit items, for every
\* limit >= 0.
C8_RecallAtMostLimit ==
    lastOp.op = "recall" => Len(lastRet) <= lastOp.limit

FromShort(item) == item.id \in Ids(store)
FromLong(item)  == item.id \in Ids(long)

\* C9: in the result of recall every item of the volatile store precedes every
\* item of the persistent store, and the persistent store is searched exactly
\* when the volatile query returned fewer than limit items, with the remaining
\* count as its limit.
C9_RecallShortThenLong ==
    (lastOp.op = "recall" /\ ~lastFault) =>
        LET nShort == Cardinality({i \in 1..Len(lastRet) : FromShort(lastRet[i])})
        IN  /\ \A i \in 1..Len(lastRet) : FromShort(lastRet[i]) # FromLong(lastRet[i])
            /\ \A i, j \in 1..Len(lastRet) :
                  (FromShort(lastRet[j]) /\ FromLong(lastRet[i])) => j < i
            /\ (searchLimit # NotCalled) <=> (nShort < lastOp.limit)
            /\ (searchLimit # NotCalled) => searchLimit = <<lastOp.limit - nShort>>

\* a recall that returned one volatile item and then one persistent row
C9_Witness ==
    /\ lastOp.op = "recall"
    /\ Len(lastRet) = 2
    /\ FromShort(lastRet[1])
    /\ FromLong(lastRet[2])
    /\ searchLimit = <<1>>

-----------------------------------------------------------------------------
(* Claims about TaskEngine, checked under SpecTask *)

\* C5: during run_all at most `concurrency` units are between acquiring the
\* semaphore and the end of run_task, whatever the queue length and the order
\* in which the executor calls end.
C5_AtMostConcurrencyInFlight == Cardinality(InFlight) <= concurrency

\* the gate is full and a unit waits at it
C5_Witness ==
    /\ Cardinality(InFlight) = concurrency
    /\ \E i \in 1..Len(units) : upc[i] = "queued"
    /\ \E i \in 1..Len(units) : upc[i] = "running"

\* C6: run_all returns as many results as there were queue entries when it
\* was called, the i-th being the outcome of the i-th entry whatever the order
\* of completion; entries queued during the run are not part of it.
C6_ResultsFollowQueueOrder ==
    rpc = "returned" =>
        /\ Len(results) = Len(units)
        /\ \A i \in 1..Len(units) :
              /\ results[i] = ures[i]
              /\ results[i] \in {NoResult, FinalResult(units[i]), EmptyResult(units[i]),
                                StrOfHistory(units[i])}

\* two different entries, the second finished first, both with a result
C6_Witness ==
    /\ rpc = "returned"
    /\ Len(units) = 2
    /\ units[1] # units[2]
    /\ doneOrder = <<2, 1>>
    /\ \A i \in 1..2 : upc[i] = "completed"

\* C7: when the executor fails for a unit, the unit's position in the result
\* is None, every other unit ends with its own outcome, and run_all returns:
\* no unit ends by the executor's exception, and run_all raises only for a
\* fault of create_agent.
C7_ExecutorFailureIsAbsent ==
    /\ \A i \in 1..Len(units) : upc[i] # "exec_fault"
    /\ rpc = "raised" => \E i \in 1..Len(units) : upc[i] = "config_fault"
    /\ rpc = "returned" =>
          \A i \in 1..Len(units) :
              /\ upc[i] \in {"completed", "failed"}
              /\ upc[i] = "failed" => results[i] = NoResult
              /\ upc[i] = "completed" =>
                    results[i] \in {FinalResult(units[i]), EmptyResult(units[i]),
                                    StrOfHistory(units[i])}

\* run_all returned although the unit that finished first had failed
C7_Witness ==
    /\ rpc = "returned"
    /\ Len(units) = 2
    /\ upc[doneOrder[1]] = "failed"
    /\ upc[doneOrder[2]] = "completed"

-----------------------------------------------------------------------------
(* Claims about consolidation, checked under SpecMem *)

\* the volatile items a consolidation pass finds: the swept store and the new item
FoundByConsolidation == Append(cleanup_locked(pre.store, now), lastRet[1])
\* the one it is to migrate first
OldestFound == STM_pop_oldest(FoundByConsolidation).ret[1]

-----------------------------------------------------------------------------
(* Claims about the queue of TaskEngine, checked under SpecTask *)

\* C13: run_all leaves the queue as it is: no step of run_all or of its
\* coroutines changes the queue, and a call of run_all builds its coroutines
\* from all the entries the queue holds then, those of an earlier run included.
C13_RunAllLeavesQueue ==
    [][(rpc' # rpc \/ upc' # upc) =>
          /\ queue' = queue
          /\ (rpc # "running" /\ rpc' = "running") => units' = queue]_vars

\* run_all has returned and the queue still holds the entries it ran
C13_Witness ==
    /\ rpc = "returned"
    /\ Len(units) = 2
    /\ queue = units

-----------------------------------------------------------------------------
(* Claims about the LongTermMemory and shutdown *)

\* C17: a second close() after a successful one completes without a fault
\* and leaves the store closed.
C17_CloseTwiceIsQuiet == lastOp.op = "close" => (~lastFault /\ closed)

\* the rows of lg other than the one with this id
RowsBut(lg, id) == {r \in Items(lg) : r.id # id}

\* C18: shutdown sweeps the volatile store and then closes the persistent
\* store, and migrates nothing: after it the volatile store holds exactly the
\* items that were live, in their order, also when the close faults; the
\* persistent rows are those from before; the persistent store is closed.
C18_ShutdownSweepsThenCloses ==
    lastOp.op = "shutdown" =>
        /\ store = SelectSeq(pre.store, LAMBDA it : ~PastExpiry(it, now))
        /\ long = pre.long
        /\ closed

\* a shutdown swept one item and kept a live one
C18_Witness ==
    /\ lastOp.op = "shutdown"
    /\ Len(pre.store) = 2
    /\ Len(store) = 1

\* C19: delete(id) and forget_long(id) return true exactly when a row of that
\* id was there, and then only that row is gone; on false the rows are as
\* before. A get(id) then returns absent and a delete(id) then returns false.
C19_DeleteReportsRemoval ==
    /\ (lastOp.op \in {"delete", "forget_long"} /\ ~lastFault) =>
          /\ lastBool = (lastOp.id \in Ids(pre.long))
          /\ Items(long) = RowsBut(pre.long, lastOp.id)
          /\ ~lastBool => long = pre.long
    /\ (lastOp.op = "get" /\ ~lastFault /\ lastOp.id \notin Ids(pre.long)) =>
          lastRet = <<>>

\* a row that had been inserted and deleted is asked for again: the second
\* delete answers false and the other row stays
C19_Witness ==
    /\ lastOp.op \in {"delete", "forget_long"}
    /\ ~lastFault
    /\ lastOp.id < nextId
    /\ lastOp.id \notin Ids(pre.long)
    /\ ~lastBool
    /\ long # <<>>

(* Checked under SpecRows *)

\* C20: a persistent row is never changed, and goes only by a delete of its
\* id: every row there before a call is there after it with the same content,
\* metadata and created_at, unless the call was a delete of that row's id.
C20_RowsChangeOnlyByDelete ==
    \A r \in Items(pre.long) :
        r \in Items(long) \/ (lastOp.op = "delete" /\ lastOp.id = r.id)

\* a delete took one row and the other row is as it was
C20_Witness ==
    /\ lastOp.op = "delete"
    /\ lastBool
    /\ Len(pre.long) = 2
    /\ Len(long) = 1
    /\ long[1] \in Items(pre.long)

-----------------------------------------------------------------------------
(* Claims about locks *)

\* waiting for a lock that another thread holds
Blocked(t) ==
    \/ tpc[t] = "s_wait" /\ ~ShortLockFree(shortLock)
    \/ tpc[t] = "l_wait" /\ ~LongLockFree(longLock)
    \/ tpc[t] = "m_wait" /\ ~MgrLockFree(mgrLock)

Waiting(t) == tpc[t] \in {"s_wait", "l_wait", "m_wait"}

\* C14: threads calling remember_short, remember_long, recall, forget_long and
\* shutdown never deadlock: a thread that holds a store's lock waits for no
\* lock, a thread that waits for the manager lock holds no store's lock, and
\* whenever some thread is in a call, some thread in a call can take its step.
C14_NoDeadlock ==
    /\ \A t \in Threads : (shortLock = t \/ longLock = t) => ~Waiting(t)
    /\ \A t \in Threads : tpc[t] = "m_wait" => (shortLock # t /\ longLock # t)
    /\ (\E t \in Threads : tpc[t] # "idle") =>
          \E t \in Threads : tpc[t] # "idle" /\ ~Blocked(t)

\* a consolidation holds the manager lock and waits for the store's lock, held
\* by the add of another remember_short, which will want the manager lock next
C14_Witness ==
    \E t, u \in Threads :
        /\ mgrLock = t
        /\ tpc[t] = "s_wait"
        /\ shortLock = u
        /\ tcall[u].mgr = "remember_short"
        /\ tcall[u].op = "add"

(* Checked under SpecConsolidate *)

\* between "with self._lock:" of _maybe_consolidate and the end of its block
InSection(t) == tcall[t].mgr = "remember_short" /\ tcall[t].op # "add"

\* the count has been read and the block is not over
CountRead(t) ==
    /\ InSection(t)
    /\ (tpc[t] = "m_test" \/ tcall[t].op \in {"pop_oldest", "ladd"})

\* C15 as stated: from the moment a consolidation has read the count until
\* its block ends, no step of another thread changes the items of the volatile
\* store, and at most one thread is in the check-and-migrate section.
C15_NoWriteDuringConsolidation ==
    [][/\ \A t \in Threads :
             (CountRead(t) /\ CountRead(t)' /\ tpc'[t] = tpc[t]) => Ids(store') = Ids(store)
       /\ Cardinality({t \in Threads : InSection(t)'}) <= 1]_vars

\* C15, amended: at most one thread is in the check-and-migrate section at a
\* time, and a thread in it holds the manager lock; the add of another
\* thread's remember_short is outside that lock and may land meanwhile.
C15_OneConsolidationAtATime ==
    /\ Cardinality({t \in Threads : InSection(t)}) <= 1
    /\ \A t \in Threads : InSection(t) => mgrLock = t

\* one thread has read the count while the other waits to consolidate
C15_Witness ==
    \E t, u \in Threads :
        /\ tpc[t] = "m_test"
        /\ tpc[u] = "m_wait"

(* Checked under SpecStoreThreads *)

\* inside "with self._lock:" of the ShortTermMemory
InShort(t) == tpc[t] \in {"s_mark", "s_body"}

\* C16: add, get, query, all_items, cleanup and pop_oldest each run as one
\* critical section: at most one thread is inside one at a time; the keys a
\* sweep has marked are all still in the store when it deletes them; and no
\* deletion finds its key gone.
C16_StoreOpsExclusive ==
    /\ Cardinality({t \in Threads : InShort(t)}) <= 1
    /\ \A t \in Threads :
          tpc[t] = "s_body" => \A i \in 1..Len(tcall[t].marks) : tcall[t].marks[i] \in Ids(store)
    /\ ~keyError

\* a sweep has marked an item and not yet deleted it, and another call waits
C16_Witness ==
    \E t, u \in Threads :
        /\ tpc[t] = "s_body"
        /\ tcall[t].marks # <<>>
        /\ tpc[u] = "s_wait"

-----------------------------------------------------------------------------
(* Claims about LongTermMemory.all, checked under SpecLong *)

Min(a, b) == IF a <= b THEN a ELSE b

\* C21: all(limit) returns min(limit, number of rows) items, each a row of the
\* store and no row twice, newest first by created_at, and no row left out is
\* newer than a row returned.
C21_AllNewestFirst ==
    (lastOp.op = "all" /\ ~lastFault) =>
        /\ Len(lastRet) = Min(lastOp.limit, Len(pre.long))
        /\ \A i \in 1..Len(lastRet) : \E r \in Items(pre.long) : lastRet[i] = RowItem(r)
        /\ \A i, j \in 1..Len(lastRet) :
              i < j => (lastRet[i].created_at >= lastRet[j].created_at /\ lastRet[i].id # lastRet[j].id)
        /\ \A r \in Items(pre.long) :
              r.id \notin Ids(lastRet) =>
                  \A i \in 1..Len(lastRet) : lastRet[i].created_at >= r.created_at

\* of two rows the later one was asked for alone, and it is the one returned
C21_Witness ==
    /\ lastOp.op = "all"
    /\ ~lastFault
    /\ lastOp.limit = 1
    /\ Len(pre.long) = 2
    /\ pre.long[1].created_at < pre.long[2].created_at
    /\ Len(lastRet) = 1
    /\ lastRet[1].id = pre.long[2].id

-----------------------------------------------------------------------------
(* Claims about the interactive loop, checked under SpecMain *)

\* every text in the queue, or about to be appended, is in the volatile store
TextsRemembered ==
    /\ \A i \in 1..Len(queue) :
          \E item \in Items(store) :
              item.content = queue[i].task /\ item.metadata = UserTaskMetadata(queue[i].mode)
    /\ main.pc = "enqueue" =>
          \E item \in Items(store) :
              item.content = main.text /\ item.metadata = UserTaskMetadata(main.mode)

\* the positions of the snapshot whose result passes the test, in order
Chosen(test(_)) ==
    SelectSeq([i \in 1..Min(Len(main.snapshot), Len(results)) |-> i],
              LAMBDA i : test(results[i]))

\* the rows written after the batch are one for each chosen position, in
\* order: content the result, metadata the task and mode of the snapshot
RowsWrittenFor(chosen) ==
    /\ Len(long) = Len(pre.long) + Len(chosen)
    /\ SubSeq(long, 1, Len(pre.long)) = pre.long
    /\ \A k \in 1..Len(chosen) :
          LET row == long[Len(pre.long) + k]
          IN  /\ row.content = results[chosen[k]]
              /\ RowItem(row).metadata = TaskResultMetadata(main.snapshot[chosen[k]])

NonAbsent(result) == result # NoResult
NonEmpty(result) == result.kind \in {"final", "str"}

\* C22 as stated: every submitted text is in the volatile store before it is
\* queued, and after a batch one row is written for each task whose result
\* is not absent, and none for the others.
C22_OneRowPerNonAbsentResult ==
    /\ TextsRemembered
    /\ lastOp.op = "store_results" => RowsWrittenFor(Chosen(NonAbsent))

\* C22, amended: every submitted text is in the volatile store before it is
\* queued, and after a batch one row is written for each task whose result
\* is neither absent nor the empty string, and none for the others.
C22_OneRowPerNonEmptyResult ==
    /\ TextsRemembered
    /\ lastOp.op = "store_results" => RowsWrittenFor(Chosen(NonEmpty))

\* a batch of two: one result was written and the other task had none
C22_Witness ==
    /\ lastOp.op = "store_results"
    /\ Len(main.snapshot) = 2
    /\ NonEmpty(results[1])
    /\ results[2] = NoResult
    /\ Len(long) = Len(pre.long) + 1

-----------------------------------------------------------------------------
(* Claims about faults of the persistent store, checked under SpecFaults *)

\* C23: a fault of the persistent store ends the manager call that met it:
\* remember_long and forget_long on a closed store raise and change no row;
\* recall raises when it reaches long.search on a closed store, returning no
\* partial list, and does not raise when it does not reach it; remember_short
\* raises only from a store fault; and no call raises while the store is open.
C23_StoreFaultPropagates ==
    /\ (lastOp.op \in {"remember_long", "forget_long"} /\ closed) =>
          (lastFault /\ lastRet = <<>> /\ ~lastBool /\ long = pre.long)
    /\ (lastOp.op = "recall" /\ closed /\ searchLimit # NotCalled) =>
          (lastFault /\ lastRet = <<>>)
    /\ (lastOp.op = "recall" /\ searchLimit = NotCalled) => ~lastFault
    /\ (lastOp.op \in {"remember_short", "remember_long", "recall", "forget_long"} /\ lastFault) =>
          (closed /\ long = pre.long)

\* recall found too few volatile items, went to the closed store, and raised
C23_Witness ==
    /\ lastOp.op = "recall"
    /\ closed
    /\ store # <<>>
    /\ searchLimit # NotCalled
    /\ lastFault

-----------------------------------------------------------------------------
(* Claims about a lookup miss, checked under SpecStore *)

\* C24: get of an id the store does not hold returns absent and leaves the
\* store as it was; get of an expired item returns absent and removes that
\* item and no other; neither raises.
C24_MissIsAValue ==
    lastOp.op = "get" =>
        /\ ~lastFault
        /\ lastOp.id \notin Ids(pre.store) => (lastRet = <<>> /\ store = pre.store)
        /\ \A item \in Items(pre.store) :
              (item.id = lastOp.id /\ PastExpiry(item, now)) =>
                  /\ lastRet = <<>>
                  /\ store = SelectSeq(pre.store, LAMBDA x : x.id # lastOp.id)

\* get of one of two expired items: it is gone, the other expired item stays
C24_Witness ==
    /\ lastOp.op = "get"
    /\ Len(pre.store) = 2
    /\ Len(store) = 1
    /\ PastExpiry(store[1], now)

-----------------------------------------------------------------------------
(* Claims about what consolidation reads, checked under SpecMem *)

\* C25: when the count consolidation reads does not exceed the threshold,
\* nothing is popped and nothing is inserted: the volatile store holds every
\* item found, the new one included, and the persistent rows are as before.
C25_NothingBelowThreshold ==
    (lastOp.op = "remember_short" /\ ~lastFault) =>
        (Len(FoundByConsolidation) <= threshold =>
            /\ store = FoundByConsolidation
            /\ long = pre.long)

\* the new item is the only one found, with rows in the persistent store
C25_Witness ==
    /\ lastOp.op = "remember_short"
    /\ ~lastFault
    /\ Len(FoundByConsolidation) <= threshold
    /\ store = <<lastRet[1]>>
    /\ long # <<>>


\* C26 as stated: the count is the raw number of items, and reading it evicts
\* nothing: every item the volatile store held before remember_short, expired
\* ones included, is still there or has become a persistent row.
C26_CountIsRaw ==
    (lastOp.op = "remember_short" /\ ~lastFault) =>
        \A item \in Items(pre.store) :
            \/ item \in Items(store)
            \/ \E r \in Items(long) \ Items(pre.long) : r.content = item.content

\* C26, amended: the count is the number of live items: all_items sweeps
\* first, so after remember_short no item past its expiry is in the volatile
\* store, and every live one is still there or has become a persistent row.
C26_CountIsLive ==
    (lastOp.op = "remember_short" /\ ~lastFault) =>
        /\ \A item \in Items(store) : ~PastExpiry(item, now)
        /\ \A item \in Items(pre.store) :
              ~PastExpiry(item, now) =>
                  \/ item \in Items(store)
                  \/ \E r \in Items(long) \ Items(pre.long) : r.content = item.content

\* the store held one expired item; after remember_short only the new one is there
C26_Witness ==
    /\ lastOp.op = "remember_short"
    /\ ~lastFault
    /\ Len(pre.store) = 1
    /\ PastExpiry(pre.store[1], now)
    /\ store = <<lastRet[1]>>

-----------------------------------------------------------------------------
(* Claims about the life of a unit, checked under SpecTask *)

\* a step of the run under way, not the start of a new run_all
SameRun == ~(rpc # "running" /\ rpc' = "running")

\* queued -> admitted -> running -> completed | failed
Chain == { <<"queued", "admitted">>, <<"admitted", "running">>,
           <<"running", "completed">>, <<"running", "failed">> }

\* a unit is admitted or running exactly while it holds a slot of the gate
SlotsHeld == sem + Cardinality(InFlight) = concurrency

C29_NoUnitOutlivesRunAll ==
    rpc \in {"returned", "raised"} =>
        \A i \in 1..Len(units) : upc[i] \notin {"queued", "admitted", "running"}

-----------------------------------------------------------------------------
(* Claims about progress, checked under SpecTaskFair *)

\* C28: every unit waiting at the gate is eventually admitted, and a run_all
\* under way eventually ends with every unit ended and every slot of the gate
\* given back.
C28_AdmittedAndEnds ==
    /\ \A i \in 1..MaxQueue :
          (i \in 1..Len(units) /\ upc[i] = "queued")
              ~> (i \in 1..Len(units) /\ upc[i] # "queued")
    /\ (rpc = "running") ~> (rpc # "running")
    /\ (rpc = "running") ~> (AllFinished /\ sem = concurrency)

\* with one slot, the second unit got in after the executor of the first raised
C28_Witness ==
    /\ Len(units) = 2
    /\ concurrency = 1
    /\ upc[1] = "failed"
    /\ upc[2] = "admitted"

-----------------------------------------------------------------------------
(* Claim about when expired items leave the store, checked under SpecStore *)

\* C31: the passage of time alone leaves the table of the store as it was, and
\* an item leaves the table only by a get of its id once it is past its
\* expiry, by the sweep of query, all_items or cleanup once it is past its
\* expiry, or by the pop_oldest that returns it.
C31_ExpiryIsLazy ==
    /\ lastOp.op = "tick" => store = pre.store
    /\ \A x \in Items(pre.store) :
          x \notin Items(store) =>
              \/ lastOp.op = "get" /\ lastOp.id = x.id /\ PastExpiry(x, now)
              \/ IsSweep(lastOp.op) /\ PastExpiry(x, now)
              \/ lastOp.op = "pop_oldest" /\ lastRet = <<x>>

\* the clock has just moved past the expiry of an item, which is still stored
C31_Witness ==
    /\ lastOp.op = "tick"
    /\ \E x \in Items(store) : PastExpiry(x, now) /\ ~PastExpiry(x, now - 1)

-----------------------------------------------------------------------------
(* Claim about the rounds of the interactive loop, checked under SpecMain *)

\* the tasks handed to add_task so far
Enqueued == main.submitted - (IF main.pc = "enqueue" THEN 1 ELSE 0)

\* C32: every task handed to run_all is one submitted since the last batch:
\* over all rounds run_all has been given no more entries than were submitted,
\* between rounds the queue holds exactly the tasks no run_all has been given
\* yet, and a run_all under way works on the snapshot taken before it, which
\* is the whole queue.
C32_EachTaskInOneBatch ==
    /\ main.launched <= Enqueued
    /\ main.pc \in {"input", "choice", "enqueue"} => main.launched + Len(queue) = Enqueued
    /\ main.pc = "await" =>
          /\ main.launched = Enqueued
          /\ units = main.snapshot
          /\ queue = main.snapshot

\* the second round is under way, with the second task alone
C32_Witness ==
    /\ main.pc = "await"
    /\ main.launched = 2
    /\ Len(units) = 1
    /\ rpc = "running"

-----------------------------------------------------------------------------
(* Claim about the constructors' arguments, checked under SpecConfig *)

\* C33: whatever integers the constructors are given, the concurrency of the
\* engine and the consolidation threshold of the manager are at least 1: 1
\* for a value of 0 or below, the value itself from 1 on.
C33_ClampedToOne ==
    passed.recorded =>
        /\ concurrency >= 1
        /\ threshold >= 1
        /\ passed.concurrency <= 0 => concurrency = 1
        /\ passed.concurrency >= 1 => concurrency = passed.concurrency
        /\ passed.threshold <= 0 => threshold = 1
        /\ passed.threshold >= 1 => threshold = passed.threshold

\* an engine given a negative concurrency has let one unit through its gate
\* and holds the other back; its manager was given a negative threshold
C33_Witness ==
    /\ passed.recorded
    /\ passed.concurrency < 0
    /\ passed.threshold < 0
    /\ sem = 0
    /\ \E i, j \in 1..Len(units) : upc[i] = "admitted" /\ upc[j] = "queued"

====
